---- MODULE Spec2Model ----
(***************************************************************************)
(* A model of rowan's green node (src/green/node.rs): construction with    *)
(* offset bookkeeping, range lookup by binary search, copy-on-write child  *)
(* replacement, the children iterator, and the construct-then-freeze       *)
(* patch of text_len.                                                      *)
(*                                                                         *)
(* The heap is a sequence of node allocations; a node handle is the index  *)
(* of its allocation (what ThinArc points to), so two handles are the same *)
(* allocation iff they are the same index.                                 *)
(***************************************************************************)
EXTENDS Integers, Sequences, FiniteSets, TLC

VARIABLES heap, op, views, arcs, pc, local, owned

vars == <<heap, op, views, arcs, pc, local, owned>>

\* ------------------------------------------------------------------ bounds
\* Spec, SpecEq: allocations made in a run.
MaxNodes == 3
\* SpecLookup, SpecIter: children of the queried node, length of a child.
MaxChildren == 3
MaxChildLen == 2
\* SpecIter: views alive at once.
MaxViews == 2
\* SpecConc: calls of GreenNode::new in a run.
MaxBuilds == 2

\* The inputs of Spec and SpecEq: two arbitrary SyntaxKind values, the
\* number of children handed to GreenNode::new, the length of a token.
Kinds == {1, 2}
Arities == {0, 1, 2}
TokenLens == {0, 1}

SeqsOf(S, lens) == UNION {[1..k -> S] : k \in lens}

\* --------------------------------------------------------------- elements
\* GreenElement = NodeOrToken<GreenNode, GreenToken>.  A token is opaque:
\* a kind and a length.  A node element is a handle to an allocation.
Token(k, l) == [tag |-> "Token", kind |-> k, text_len |-> l, ptr |-> 0]
NodeEl(p) == [tag |-> "Node", kind |-> 0, text_len |-> 0, ptr |-> p]
NoEl == [tag |-> "None", kind |-> 0, text_len |-> 0, ptr |-> 0]

\* GreenChild::{Node, Token} { offset_in_parent, .. }
GreenChild(off, el) == [offset_in_parent |-> off, el |-> el]

\* GreenNodeHead { kind, text_len } followed by the slice of children.
GreenNodeData(kind, len, slice) == [kind |-> kind, text_len |-> len, slice |-> slice]

\* GreenNode::kind, GreenNode::text_len: read the header.
NodeKind(h, p) == h[p].kind
NodeTextLen(h, p) == h[p].text_len

\* GreenElement::text_len: a token knows its length, a node reads its header.
ElTextLen(h, el) == IF el.tag = "Token" THEN el.text_len ELSE NodeTextLen(h, el.ptr)

\* GreenChild::as_ref, GreenChild::offset_in_parent
as_ref(c) == c.el
offset_in_parent(c) == c.offset_in_parent

\* TextRange::at(offset, len)
TextRangeAt(off, len) == [start |-> off, end |-> off + len]

\* GreenChild::range_in_parent
range_in_parent(h, c) == TextRangeAt(offset_in_parent(c), ElTextLen(h, as_ref(c)))

\* Mutant: only the start of the other range is tested.
contains_range_start_only(r, other) == r.start <= other.start /\ other.start <= r.end

\* TextRange::contains_range
contains_range(r, other) == r.start <= other.start /\ other.end <= r.end

\* Mutant: the two outcomes of the comparison are swapped.
ordering_swapped(r, other) ==
  IF r.end <= other.start THEN "Greater"
  ELSE IF other.end <= r.start THEN "Less"
  ELSE "Equal"

\* TextRange::ordering(self, other)
ordering(r, other) ==
  IF r.end <= other.start THEN "Less"
  ELSE IF other.end <= r.start THEN "Greater"
  ELSE "Equal"

\* ----------------------------------------------------------- GreenNode::new
\* The closure of the map in GreenNode::new, run over the whole iterator:
\* each element gets the running text_len as its offset, then adds its own.
RECURSIVE MapChildren(_, _, _, _)
MapChildren(h, els, acc, running) ==
  IF Len(acc) = Len(els) THEN [slice |-> acc, text_len |-> running]
  ELSE LET el == els[Len(acc) + 1]
       IN MapChildren(h, els, Append(acc, GreenChild(running, el)),
                      running + ElTextLen(h, el))

\* ThinArc::from_header_and_iter(GreenNodeHead { kind, text_len: 0 }, children)
FromHeaderAndIter(kind, slice) == GreenNodeData(kind, 0, slice)

\* Mutant: the fixup is forgotten, the header keeps the temporary 0.
FixupTextLenSkipped(data, len) == data

\* Arc::get_mut(&mut data).unwrap().header.header.text_len = text_len
FixupTextLen(data, len) == [data EXCEPT !.text_len = len]

\* The allocation a call of GreenNode::new makes.
NewData(h, kind, els) ==
  LET m == MapChildren(h, els, <<>>, 0)
  IN FixupTextLen(FromHeaderAndIter(kind, m.slice), m.text_len)

\* Where the allocation goes: a fresh address.
AllocAt(h, data) == [heap |-> Append(h, data), ptr |-> Len(h) + 1]

\* GreenNode::new: the heap after the call and the handle returned.
GreenNodeNew(h, kind, els) == AllocAt(h, NewData(h, kind, els))

\* GreenNode::ptr: the address of the allocation.
NodePtr(p) == p

\* #[derive(Clone)] on GreenNode: ThinArc::clone, the same allocation.
CloneNode(h, p) == [heap |-> h, ptr |-> p]

\* --------------------------------------------------- equality and hashing
\* #[derive(PartialEq)]: headers equal and children equal element-wise,
\* a child comparing its variant, its offset and its element.
\* Mutant: two nodes are equal only when they are the same allocation.
NodeEqByPtr(h, p, q) == p = q

RECURSIVE NodeEq(_, _, _)
ElEq(h, a, b) ==
  /\ a.tag = b.tag
  /\ IF a.tag = "Node" THEN NodeEq(h, a.ptr, b.ptr)
     ELSE a.kind = b.kind /\ a.text_len = b.text_len
NodeEq(h, p, q) ==
  /\ h[p].kind = h[q].kind
  /\ h[p].text_len = h[q].text_len
  /\ Len(h[p].slice) = Len(h[q].slice)
  /\ \A i \in 1..Len(h[p].slice) :
       /\ h[p].slice[i].offset_in_parent = h[q].slice[i].offset_in_parent
       /\ ElEq(h, h[p].slice[i].el, h[q].slice[i].el)

\* #[derive(Hash)]: the words fed to the hasher, header first, then the
\* slice (its length, then each child: variant, offset, element).
RECURSIVE HashFeed(_, _)
RECURSIVE HashSlice(_, _, _)
HashEl(h, el) ==
  IF el.tag = "Node" THEN <<0>> \o HashFeed(h, el.ptr)
  ELSE <<1, el.kind, el.text_len>>
HashSlice(h, slice, i) ==
  IF i > Len(slice) THEN <<>>
  ELSE <<slice[i].offset_in_parent>> \o HashEl(h, slice[i].el) \o HashSlice(h, slice, i + 1)
HashFeed(h, p) ==
  <<h[p].kind, h[p].text_len, Len(h[p].slice)>> \o HashSlice(h, h[p].slice, 1)

\* ------------------------------------------------ GreenNode::child_at_range
\* slice::binary_search_by with the comparator of child_at_range.
RECURSIVE BinarySearchBy(_, _, _, _, _)
BinarySearchBy(h, slice, range, left, right) ==
  IF left >= right THEN [found |-> FALSE, idx |-> left]
  ELSE LET mid == left + ((right - left) \div 2)
           cmp == ordering(range_in_parent(h, slice[mid + 1]), range)
       IN IF cmp = "Less" THEN BinarySearchBy(h, slice, range, mid + 1, right)
          ELSE IF cmp = "Greater" THEN BinarySearchBy(h, slice, range, left, mid)
          ELSE [found |-> TRUE, idx |-> mid]

\* usize::saturating_sub(1)
SaturatingSub1(n) == IF n = 0 THEN 0 ELSE n - 1

\* Mutant: the insertion point itself is used, not the slot before it.
ResolveIdxNoStepBack(r) == r.idx

\* .unwrap_or_else(|it| it.saturating_sub(1))
ResolveIdx(r) == IF r.found THEN r.idx ELSE SaturatingSub1(r.idx)

None == [some |-> FALSE, idx |-> 0, off |-> 0, el |-> NoEl]
Some(i, off, el) == [some |-> TRUE, idx |-> i, off |-> off, el |-> el]

\* GreenNode::child_at_range.  Indices are 0-based as in the source.
child_at_range(h, p, range) ==
  LET slice == h[p].slice
      idx == ResolveIdx(BinarySearchBy(h, slice, range, 0, Len(slice)))
  IN IF idx < Len(slice) /\ contains_range(range_in_parent(h, slice[idx + 1]), range)
     THEN Some(idx, offset_in_parent(slice[idx + 1]), as_ref(slice[idx + 1]))
     ELSE None

\* ------------------------------------------------- GreenNode::replace_child
\* The enumerate().map(..) closure of replace_child run over the children:
\* `replacement` is the Option the closure takes from; taking from None is
\* the unwrap that panics.
\* Mutant: the closure compares the 1-based position with idx.
RECURSIVE ReplaceMapOffByOne(_, _, _, _, _, _)
ReplaceMapOffByOne(slice, idx, new_child, replacement, acc, taken) ==
  LET i == Len(acc)
  IN IF i = Len(slice) THEN [els |-> acc, taken |-> taken, panicked |-> FALSE]
     ELSE IF i + 1 = idx
          THEN ReplaceMapOffByOne(slice, idx, new_child, FALSE,
                                  Append(acc, new_child), taken + 1)
          ELSE ReplaceMapOffByOne(slice, idx, new_child, replacement,
                                  Append(acc, as_ref(slice[i + 1])), taken)

RECURSIVE ReplaceMap(_, _, _, _, _, _)
ReplaceMap(slice, idx, new_child, replacement, acc, taken) ==
  LET i == Len(acc)
  IN IF i = Len(slice) THEN [els |-> acc, taken |-> taken, panicked |-> FALSE]
     ELSE IF i = idx
          THEN IF replacement
               THEN ReplaceMap(slice, idx, new_child, FALSE, Append(acc, new_child), taken + 1)
               ELSE [els |-> acc, taken |-> taken, panicked |-> TRUE]
          ELSE ReplaceMap(slice, idx, new_child, replacement,
                          Append(acc, as_ref(slice[i + 1])), taken)

\* Mutant: the edit is made in place, in the receiver's own allocation.
replace_child_in_place(h, p, idx, new_child) ==
  LET m == ReplaceMap(h[p].slice, idx, new_child, TRUE, <<>>, 0)
  IN [heap |-> [h EXCEPT ![p] = NewData(h, NodeKind(h, p), m.els)], ptr |-> p,
      taken |-> m.taken, panicked |-> m.panicked]

\* Mutant: an index past the last child is treated as a failure.
replace_child_checked(h, p, idx, new_child) ==
  LET m == ReplaceMap(h[p].slice, idx, new_child, TRUE, <<>>, 0)
      n == GreenNodeNew(h, NodeKind(h, p), m.els)
  IN IF idx >= Len(h[p].slice)
     THEN [heap |-> h, ptr |-> 0, taken |-> m.taken, panicked |-> TRUE]
     ELSE [heap |-> n.heap, ptr |-> n.ptr, taken |-> m.taken, panicked |-> FALSE]

\* GreenNode::replace_child: the heap after the call, the handle returned,
\* how often the replacement was taken, whether the call panicked.
replace_child(h, p, idx, new_child) ==
  LET m == ReplaceMap(h[p].slice, idx, new_child, TRUE, <<>>, 0)
      n == GreenNodeNew(h, NodeKind(h, p), m.els)
  IN IF m.panicked
     THEN [heap |-> h, ptr |-> 0, taken |-> m.taken, panicked |-> TRUE]
     ELSE [heap |-> n.heap, ptr |-> n.ptr, taken |-> m.taken, panicked |-> FALSE]

\* ------------------------------------------------------------ the program
\* `op` records the last call: its name, receiver, arguments and result.
NoRange == [start |-> 0, end |-> 0]
NoOp ==
  [name |-> "init", self |-> 0, idx |-> 0, el |-> NoEl, kind |-> 0, els |-> <<>>,
   pre |-> 0, res |-> 0, panicked |-> FALSE, taken |-> 0, range |-> NoRange,
   out |-> None]

\* The elements a caller can pass: a token, or a clone of a live node.
TokenEls == {Token(1, l) : l \in TokenLens}
Elems(h) == TokenEls \cup {NodeEl(p) : p \in 1..Len(h)}

Idle == /\ views = <<>>
        /\ arcs = <<>>
        /\ pc = <<>>
        /\ local = <<>>
        /\ owned = <<>>

Init == /\ heap = <<>>
        /\ op = NoOp
        /\ Idle

\* let n = GreenNode::new(k, els);
New(k, els) ==
  /\ Len(heap) < MaxNodes
  /\ LET r == GreenNodeNew(heap, k, els)
     IN /\ heap' = r.heap
        /\ op' = [NoOp EXCEPT !.name = "new", !.kind = k, !.els = els,
                              !.pre = Len(heap), !.res = r.ptr]
  /\ UNCHANGED <<views, arcs, pc, local, owned>>

\* let n = p.replace_child(idx, el);
ReplaceChild(p, idx, el) ==
  /\ Len(heap) < MaxNodes
  /\ LET r == replace_child(heap, p, idx, el)
     IN /\ heap' = r.heap
        /\ op' = [NoOp EXCEPT !.name = "replace_child", !.self = p, !.idx = idx,
                              !.el = el, !.pre = Len(heap), !.res = r.ptr,
                              !.taken = r.taken, !.panicked = r.panicked]
  /\ UNCHANGED <<views, arcs, pc, local, owned>>

\* let n = p.clone();
Clone(p) ==
  /\ LET r == CloneNode(heap, p)
     IN /\ heap' = r.heap
        /\ op' = [NoOp EXCEPT !.name = "clone", !.self = p, !.pre = Len(heap),
                              !.res = r.ptr]
  /\ UNCHANGED <<views, arcs, pc, local, owned>>

Next ==
  \/ \E k \in Kinds : \E els \in SeqsOf(Elems(heap), Arities) : New(k, els)
  \/ \E p \in 1..Len(heap) : \E idx \in Arities : \E el \in Elems(heap) :
       ReplaceChild(p, idx, el)

Spec == Init /\ [][Next]_vars

\* ------------------------------------------------------- lookups (SpecLookup)
\* The node queried: a parent built by GreenNode::new from tokens of every
\* length up to MaxChildLen and from clones of one leaf node.
LeafHeap == GreenNodeNew(<<>>, 2, <<Token(1, MaxChildLen)>>).heap
LookupEls == {Token(1, l) : l \in 0..MaxChildLen} \cup {NodeEl(1)}
LookupHeaps ==
  {GreenNodeNew(LeafHeap, 1, els).heap : els \in SeqsOf(LookupEls, 0..MaxChildren)}

Ranges(n) == {[start |-> a, end |-> b] : <<a, b>> \in {x \in (0..n) \X (0..n) : x[1] <= x[2]}}

InitLookup == /\ heap \in LookupHeaps
              /\ op = NoOp
              /\ Idle

\* let out = p.child_at_range(range);
ChildAtRange(p, range) ==
  /\ op' = [NoOp EXCEPT !.name = "child_at_range", !.self = p, !.range = range,
                        !.pre = Len(heap), !.out = child_at_range(heap, p, range)]
  /\ UNCHANGED <<heap, views, arcs, pc, local, owned>>

NextLookup ==
  \E p \in 1..Len(heap) : \E range \in Ranges(NodeTextLen(heap, p) + 1) :
    ChildAtRange(p, range)

SpecLookup == InitLookup /\ [][NextLookup]_vars

\* ------------------------------------------------ equality and identity (SpecEq)
\* Nodes are built from one token and from clones of live nodes, and cloned.
EqElems(h) == {Token(1, 1)} \cup {NodeEl(p) : p \in 1..Len(h)}

NextEq ==
  \/ \E k \in Kinds : \E els \in SeqsOf(EqElems(heap), Arities) : New(k, els)
  \/ \E p \in 1..Len(heap) : Clone(p)

SpecEq == Init /\ [][NextEq]_vars

\* ------------------------------------------------------- iteration (SpecIter)
\* Children { inner: slice::Iter }: the part [lo, hi) of the slice of `node`
\* not yet yielded.  fwd and bwd log what next and next_back returned;
\* pulled, got and wasEmpty describe the latest pull.
children(h, p) ==
  [node |-> p, lo |-> 0, hi |-> Len(h[p].slice), fwd |-> <<>>, bwd |-> <<>>,
   pulled |-> "none", got |-> NoEl, wasEmpty |-> FALSE]

\* ExactSizeIterator::len
len(v) == v.hi - v.lo

\* slice::Iter::next, as the new bounds and the index of the item (0: none).
SliceNext(lo, hi) ==
  IF lo = hi THEN [lo |-> lo, hi |-> hi, item |-> 0]
  ELSE [lo |-> lo + 1, hi |-> hi, item |-> lo + 1]

\* Mutant: next_back forwards to inner.next().
SliceNextBackFromFront(lo, hi) ==
  IF lo = hi THEN [lo |-> lo, hi |-> hi, item |-> 0]
  ELSE [lo |-> lo + 1, hi |-> hi, item |-> lo + 1]

\* slice::Iter::next_back
SliceNextBack(lo, hi) ==
  IF lo = hi THEN [lo |-> lo, hi |-> hi, item |-> 0]
  ELSE [lo |-> lo, hi |-> hi - 1, item |-> hi]

\* .map(GreenChild::as_ref) on the item of a pull
MapAsRef(h, v, item) == IF item = 0 THEN NoEl ELSE as_ref(h[v.node].slice[item])

\* Children::next
ChildrenNext(h, v) ==
  LET r == SliceNext(v.lo, v.hi)
      x == MapAsRef(h, v, r.item)
  IN [v EXCEPT !.lo = r.lo, !.hi = r.hi, !.pulled = "next", !.got = x,
               !.wasEmpty = (len(v) = 0),
               !.fwd = IF r.item = 0 THEN @ ELSE Append(@, x)]

\* Children::next_back
ChildrenNextBack(h, v) ==
  LET r == SliceNextBack(v.lo, v.hi)
      x == MapAsRef(h, v, r.item)
  IN [v EXCEPT !.lo = r.lo, !.hi = r.hi, !.pulled = "next_back", !.got = x,
               !.wasEmpty = (len(v) = 0),
               !.bwd = IF r.item = 0 THEN @ ELSE Append(@, x)]

\* The node iterated: n children, all different, the second one a node.
IterEls(n) == [i \in 1..n |-> IF i = 2 THEN NodeEl(1) ELSE Token(i, 1)]
IterHeaps == {GreenNodeNew(LeafHeap, 1, IterEls(n)).heap : n \in 0..MaxChildren}

InitIter == /\ heap \in IterHeaps
            /\ op = NoOp
            /\ Idle

\* let it = p.children();
Children(p) ==
  /\ Len(views) < MaxViews
  /\ views' = Append(views, children(heap, p))
  /\ UNCHANGED <<heap, op, arcs, pc, local, owned>>

\* it.next();
IterNext(i) ==
  /\ views' = [views EXCEPT ![i] = ChildrenNext(heap, @)]
  /\ UNCHANGED <<heap, op, arcs, pc, local, owned>>

\* it.next_back();
IterNextBack(i) ==
  /\ views' = [views EXCEPT ![i] = ChildrenNextBack(heap, @)]
  /\ UNCHANGED <<heap, op, arcs, pc, local, owned>>

NextIter ==
  \/ \E p \in 1..Len(heap) : Children(p)
  \/ \E i \in 1..Len(views) : IterNext(i)
  \/ \E i \in 1..Len(views) : IterNextBack(i)

SpecIter == InitIter /\ [][NextIter]_vars

\* ------------------------------------------- concurrent construction (SpecConc)
\* Threads build, share, read and drop nodes.  arcs[p] is the strong count
\* of allocation p (0: freed) and the thread that built it; owned[t] is the
\* set of nodes thread t holds a handle to; local[t] is the `data` and
\* `text_len` of a call of GreenNode::new in progress in thread t.
Threads == {1, 2}
NoLocal == [ptr |-> 0, text_len |-> 0]

\* What a thread can pass to GreenNode::new: a token, or a clone of a node it holds.
ConcElems(t) == {Token(1, 1)} \cup {NodeEl(p) : p \in owned[t]}

\* GreenNode::clone of every node element: one more strong reference each.
RECURSIVE CloneAll(_, _, _)
CloneAll(a, els, i) ==
  IF i > Len(els) THEN a
  ELSE CloneAll(IF els[i].tag = "Node" THEN [a EXCEPT ![els[i].ptr].count = @ + 1] ELSE a,
                els, i + 1)

\* Dropping a handle: one strong reference less; the last one frees the
\* allocation and drops its children.
RECURSIVE DropHandle(_, _, _)
RECURSIVE DropChildren(_, _, _, _)
DropHandle(a, h, p) ==
  LET a1 == [a EXCEPT ![p].count = @ - 1]
  IN IF a1[p].count > 0 THEN a1 ELSE DropChildren(a1, h, h[p].slice, 1)
DropChildren(a, h, slice, i) ==
  IF i > Len(slice) THEN a
  ELSE DropChildren(IF slice[i].el.tag = "Node" THEN DropHandle(a, h, slice[i].el.ptr) ELSE a,
                    h, slice, i + 1)

\* The nodes reachable from a set of handles through children.
NodeKids(h, p) ==
  {h[p].slice[i].el.ptr : i \in {j \in 1..Len(h[p].slice) : h[p].slice[j].el.tag = "Node"}}
RECURSIVE Reach(_, _, _)
Reach(h, ps, n) ==
  IF n = 0 THEN ps ELSE Reach(h, ps \cup UNION {NodeKids(h, p) : p \in ps}, n - 1)
Readable(t) == Reach(heap, owned[t], Len(heap))

\* Mutant: the allocation is handed to every thread before the fixup.
HandlesAfterAllocLeaked(own, t, p) == [u \in DOMAIN own |-> own[u] \cup {p}]

\* Between the allocation and the fixup `data` is a local of the call: no
\* handle to it is stored anywhere.
HandlesAfterAlloc(own, t, p) == own

\* Arc::get_mut: Some only for the unique owner.
GetMutIsSome(a, p) == a[p].count = 1

InitConc == /\ heap = <<>>
            /\ arcs = <<>>
            /\ op = NoOp
            /\ views = <<>>
            /\ pc = [t \in Threads |-> "idle"]
            /\ local = [t \in Threads |-> NoLocal]
            /\ owned = [t \in Threads |-> {}]

\* GreenNode::new up to ThinArc::from_header_and_iter: the children are
\* consumed, the allocation is made with text_len 0 and one strong reference.
Alloc(t, k, els) ==
  /\ pc[t] = "idle"
  /\ Len(heap) < MaxBuilds
  /\ LET m == MapChildren(heap, els, <<>>, 0)
         r == AllocAt(heap, FromHeaderAndIter(k, m.slice))
     IN /\ heap' = r.heap
        /\ arcs' = Append(CloneAll(arcs, els, 1), [count |-> 1, maker |-> t])
        /\ local' = [local EXCEPT ![t] = [ptr |-> r.ptr, text_len |-> m.text_len]]
        /\ owned' = HandlesAfterAlloc(owned, t, r.ptr)
  /\ pc' = [pc EXCEPT ![t] = "fixup"]
  /\ UNCHANGED <<op, views>>

\* Arc::get_mut(&mut data).unwrap().header.header.text_len = text_len
Fixup(t) ==
  /\ pc[t] = "fixup"
  /\ IF GetMutIsSome(arcs, local[t].ptr)
     THEN /\ heap' = [heap EXCEPT ![local[t].ptr] = FixupTextLen(@, local[t].text_len)]
          /\ pc' = [pc EXCEPT ![t] = "return"]
     ELSE /\ heap' = heap
          /\ pc' = [pc EXCEPT ![t] = "panicked"]
  /\ UNCHANGED <<op, views, arcs, local, owned>>

\* GreenNode { data }: the caller gets the handle.
Return(t) ==
  /\ pc[t] = "return"
  /\ owned' = [owned EXCEPT ![t] = @ \cup {local[t].ptr}]
  /\ local' = [local EXCEPT ![t] = NoLocal]
  /\ pc' = [pc EXCEPT ![t] = "idle"]
  /\ UNCHANGED <<heap, op, views, arcs>>

\* Thread t clones a node it holds and hands the clone to thread u.
Send(t, u, p) ==
  /\ pc[t] = "idle"
  /\ u # t
  /\ p \in owned[t]
  /\ p \notin owned[u]
  /\ arcs' = [arcs EXCEPT ![p].count = @ + 1]
  /\ owned' = [owned EXCEPT ![u] = @ \cup {p}]
  /\ UNCHANGED <<heap, op, views, pc, local>>

\* Thread t drops its handle to p.
Drop(t, p) ==
  /\ pc[t] = "idle"
  /\ p \in owned[t]
  /\ arcs' = DropHandle(arcs, heap, p)
  /\ owned' = [owned EXCEPT ![t] = @ \ {p}]
  /\ UNCHANGED <<heap, op, views, pc, local>>

\* Thread t reads text_len() of a node it holds or reaches through children().
Read(t, p) ==
  /\ pc[t] = "idle"
  /\ p \in Readable(t)
  /\ op' = [NoOp EXCEPT !.name = "read", !.idx = t, !.self = p,
                        !.res = NodeTextLen(heap, p)]
  /\ UNCHANGED <<heap, views, arcs, pc, local, owned>>

NextConc ==
  \/ \E t \in Threads : \E els \in SeqsOf(ConcElems(t), {0, 1}) : Alloc(t, 1, els)
  \/ \E t \in Threads : Fixup(t)
  \/ \E t \in Threads : Return(t)
  \/ \E t, u \in Threads : \E p \in 1..Len(heap) : Send(t, u, p)
  \/ \E t \in Threads : \E p \in 1..Len(heap) : Drop(t, p)
  \/ \E t \in Threads : \E p \in 1..Len(heap) : Read(t, p)

SpecConc == InitConc /\ [][NextConc]_vars

\* ================================================================= claims
\* The sum of the lengths of the first n elements of a sequence of elements.
RECURSIVE SumLens(_, _, _)
SumLens(h, els, n) == IF n = 0 THEN 0 ELSE SumLens(h, els, n - 1) + ElTextLen(h, els[n])

ElsOf(h, p) == [i \in 1..Len(h[p].slice) |-> h[p].slice[i].el]

\* C1: every node built by GreenNode::new, directly or through replace_child,
\* has child 0 at offset 0, child i at the offset of child i-1 plus the length
\* of child i-1 (the sum of the lengths before it), and text_len equal to the
\* sum of all its children's lengths (0 for no children).
C1_OffsetsAndLength ==
  \A p \in 1..Len(heap) :
    LET s == heap[p].slice
        els == ElsOf(heap, p)
    IN /\ Len(s) >= 1 => s[1].offset_in_parent = 0
       /\ \A i \in 2..Len(s) :
            s[i].offset_in_parent =
              s[i - 1].offset_in_parent + ElTextLen(heap, els[i - 1])
       /\ \A i \in 1..Len(s) : s[i].offset_in_parent = SumLens(heap, els, i - 1)
       /\ heap[p].text_len = SumLens(heap, els, Len(s))
       /\ Len(s) = 0 => heap[p].text_len = 0

\* A node made by replace_child whose last child is a node sitting at a
\* non-zero offset.
C1_Witness ==
  /\ op.name = "replace_child"
  /\ op.res > 0
  /\ LET s == heap[op.res].slice
     IN /\ Len(s) = 2
        /\ s[2].offset_in_parent > 0
        /\ s[2].el.tag = "Node"
        /\ heap[op.res].text_len > s[2].offset_in_parent

\* The children replace_child(idx, el) is to produce from those of p.
Updated(h, p, idx, el) ==
  [j \in 1..Len(h[p].slice) |-> IF j - 1 = idx THEN el ELSE h[p].slice[j].el]

\* C4: replace_child(i, new_elem) with i < n allocates exactly one node, of
\* the same kind and with n children; every child j # i is the original's
\* child j, the same allocation and structurally equal; child i is new_elem;
\* offsets and text_len are those of the updated lengths.
C4_ReplaceChild ==
  (op.name = "replace_child" /\ op.idx < Len(heap[op.self].slice)) =>
    LET n == Len(heap[op.self].slice)
        want == Updated(heap, op.self, op.idx, op.el)
    IN /\ ~op.panicked
       /\ Len(heap) = op.pre + 1
       /\ op.res = Len(heap)
       /\ \A q \in 1..op.pre : NodePtr(op.res) # NodePtr(q)
       /\ NodeKind(heap, op.res) = NodeKind(heap, op.self)
       /\ Len(heap[op.res].slice) = n
       /\ \A j \in 1..n :
            LET c == heap[op.res].slice[j]
            IN /\ c.el = want[j]
               /\ ElEq(heap, c.el, want[j])
               /\ c.el.tag = "Node" => c.el.ptr <= op.pre
               /\ c.offset_in_parent = SumLens(heap, want, j - 1)
       /\ NodeTextLen(heap, op.res) = SumLens(heap, want, n)

\* A token of length 0 has replaced a longer child next to a shared node.
C4_Witness ==
  /\ op.name = "replace_child"
  /\ op.idx = 0
  /\ op.res > 0
  /\ Len(heap[op.self].slice) = 2
  /\ op.el = Token(1, 0)
  /\ ElTextLen(heap, heap[op.self].slice[1].el) > 0
  /\ heap[op.self].slice[2].el.tag = "Node"
  /\ heap[op.res].slice[2].el = heap[op.self].slice[2].el
  /\ NodeTextLen(heap, op.res) < NodeTextLen(heap, op.self)

\* C5: no call changes a node that exists: every allocation keeps its kind,
\* text_len, children and offsets.
C5_NodesFrozen ==
  [][\A p \in 1..Len(heap) : p <= Len(heap') /\ heap'[p] = heap[p]]_vars

\* replace_child has run on a node that shares a child node with its result.
C5_Witness ==
  /\ op.name = "replace_child"
  /\ op.res > 0
  /\ op.res # op.self
  /\ \E i \in 1..Len(heap[op.self].slice) : \E j \in 1..Len(heap[op.res].slice) :
       /\ heap[op.self].slice[i].el.tag = "Node"
       /\ heap[op.res].slice[j].el = heap[op.self].slice[i].el

\* C10: replace_child with idx >= n does not fail, never takes new_elem and
\* returns a new allocation structurally equal to the receiver; for any idx
\* the replacement is taken at most once; child_at_range on a node without
\* children is None for every range.
C10_TotalOnMisuse ==
  /\ op.name = "replace_child" =>
       /\ ~op.panicked
       /\ op.taken <= 1
       /\ op.idx >= Len(heap[op.self].slice) =>
            /\ op.taken = 0
            /\ op.res = Len(heap)
            /\ Len(heap) = op.pre + 1
            /\ NodePtr(op.res) # NodePtr(op.self)
            /\ NodeEq(heap, op.res, op.self)
            /\ heap[op.res] = heap[op.self]
  /\ \A p \in 1..Len(heap) :
       Len(heap[p].slice) = 0 =>
         \A r \in Ranges(MaxChildLen) : child_at_range(heap, p, r) = None

\* replace_child past the last child of a node that has children.
C10_Witness ==
  /\ op.name = "replace_child"
  /\ Len(heap[op.self].slice) = 1
  /\ op.idx = 2
  /\ op.res = Len(heap)
  /\ \E p \in 1..Len(heap) : Len(heap[p].slice) = 0

\* The receiver's children, its result and query in a child_at_range call.
Slice == heap[op.self].slice
Rip(i) == range_in_parent(heap, Slice[i + 1])
IsSome(i) == op.out = Some(i, Slice[i + 1].offset_in_parent, Slice[i + 1].el)
Lookup == op.name = "child_at_range"
EmptyQuery == op.range.start = op.range.end

\* C2 as stated: whenever the query lies inside child i's range, the call
\* returns (i, offset of child i, child i).
C2_Original ==
  Lookup => \A i \in 0..(Len(Slice) - 1) :
              contains_range(Rip(i), op.range) => IsSome(i)

\* C2 as amended: the same for a query that is not empty, or that is empty
\* and lies strictly between the start and the end of child i.
C2_InsideChild ==
  Lookup => \A i \in 0..(Len(Slice) - 1) :
              (/\ contains_range(Rip(i), op.range)
               /\ \/ ~EmptyQuery
                  \/ Rip(i).start < op.range.start /\ op.range.end < Rip(i).end)
              => IsSome(i)

\* A non-empty query strictly inside the middle child, a node, was answered.
C2_Witness ==
  /\ Lookup
  /\ Len(Slice) >= 3
  /\ ~EmptyQuery
  /\ op.out.some
  /\ op.out.idx = 1
  /\ op.out.el.tag = "Node"
  /\ op.out.off > 0
  /\ op.range.start > op.out.off

\* C3: Some((idx, off, child)) is returned only for a child whose range
\* contains the query, with its offset; None is returned exactly when no
\* child's range contains the query, so for a query that overlaps two
\* children and for one that ends past the node.
C3_SomeOnlyIfContained ==
  Lookup =>
    /\ op.out.some =>
         /\ op.out.idx < Len(Slice)
         /\ contains_range(Rip(op.out.idx), op.range)
         /\ IsSome(op.out.idx)
    /\ ~op.out.some <=> ~\E i \in 0..(Len(Slice) - 1) : contains_range(Rip(i), op.range)
    /\ (\E i, j \in 0..(Len(Slice) - 1) :
          /\ i # j
          /\ ordering(Rip(i), op.range) = "Equal"
          /\ ordering(Rip(j), op.range) = "Equal") => ~op.out.some
    /\ (/\ op.range = TextRangeAt(0, NodeTextLen(heap, op.self))
        /\ Cardinality({i \in 0..(Len(Slice) - 1) : Rip(i).start < Rip(i).end}) >= 2)
       => ~op.out.some
    /\ op.range.end > NodeTextLen(heap, op.self) => ~op.out.some

\* A query over the whole of a node with three children of non-zero length
\* was answered None.
C3_Witness ==
  /\ Lookup
  /\ Len(Slice) = 3
  /\ \A i \in 0..2 : Rip(i).start < Rip(i).end
  /\ op.range = TextRangeAt(0, NodeTextLen(heap, op.self))
  /\ ~op.out.some

\* C8 as stated: an empty query at the end of child i, where child i+1
\* starts, returns child i; an empty query at 0 in a node with text
\* returns child 0.
C8_Original ==
  (Lookup /\ EmptyQuery) =>
    /\ \A i \in 0..(Len(Slice) - 2) :
         (Rip(i).end = op.range.start /\ Rip(i + 1).start = op.range.start) => IsSome(i)
    /\ (op.range.start = 0 /\ NodeTextLen(heap, op.self) > 0) => IsSome(0)

\* C8 as amended: the empty query at the end of child i returns child i when
\* child i+1 is not of length 0, and in general the last child that ends
\* there; the empty query at 0 returns child 0 unless the node begins with
\* two children of length 0.
C8_EmptyQueryOnBoundary ==
  (Lookup /\ EmptyQuery) =>
    /\ \A i \in 0..(Len(Slice) - 2) :
         (/\ Rip(i).end = op.range.start
          /\ Rip(i + 1).start = op.range.start
          /\ Rip(i + 1).start < Rip(i + 1).end) => IsSome(i)
    /\ \A i \in 0..(Len(Slice) - 1) :
         (/\ Rip(i).end = op.range.start
          /\ \A j \in (i + 1)..(Len(Slice) - 1) : Rip(j).end > op.range.start)
         => IsSome(i)
    /\ (/\ op.range.start = 0
        /\ Len(Slice) >= 1
        /\ ~(Len(Slice) >= 2 /\ Rip(0).end = 0 /\ Rip(1).end = 0)) => IsSome(0)

\* An empty query where child 1 ends and child 2 starts, both with text,
\* returned child 1.
C8_Witness ==
  /\ Lookup
  /\ EmptyQuery
  /\ Len(Slice) >= 3
  /\ Rip(1).start < Rip(1).end
  /\ Rip(2).start < Rip(2).end
  /\ op.range.start = Rip(1).end
  /\ IsSome(1)

\* Two nodes of the same kind whose children are equal element by element.
SameInputs(h, p, q) ==
  /\ h[p].kind = h[q].kind
  /\ Len(h[p].slice) = Len(h[q].slice)
  /\ \A i \in 1..Len(h[p].slice) : ElEq(h, h[p].slice[i].el, h[q].slice[i].el)

\* C6: two nodes built by separate calls of GreenNode::new from the same
\* kind and element-wise equal children are equal and hash alike, and their
\* ptr() differ; a clone has the ptr() of the node it was cloned from.
C6_StructuralEquality ==
  /\ \A p, q \in 1..Len(heap) :
       (p # q /\ SameInputs(heap, p, q)) =>
         /\ NodeEq(heap, p, q)
         /\ HashFeed(heap, p) = HashFeed(heap, q)
         /\ NodePtr(p) # NodePtr(q)
  /\ op.name = "new" =>
       /\ op.res = Len(heap)
       /\ \A q \in 1..op.pre : NodePtr(op.res) # NodePtr(q)
  /\ op.name = "clone" =>
       /\ NodePtr(op.res) = NodePtr(op.self)
       /\ Len(heap) = op.pre

\* A second node was built from the kind and children, one of them a node,
\* of a node built earlier.
C6_Witness ==
  /\ op.name = "new"
  /\ Len(op.els) = 2
  /\ \E i \in 1..2 : op.els[i].tag = "Node"
  /\ \E q \in 1..op.pre : SameInputs(heap, op.res, q) /\ NodeTextLen(heap, q) > 0

Reverse(s) == [i \in 1..Len(s) |-> s[Len(s) + 1 - i]]

ViewOk(v) ==
  LET s == heap[v.node].slice
      n == Len(s)
  IN /\ Len(v.fwd) + Len(v.bwd) <= n
     /\ v.fwd = [i \in 1..Len(v.fwd) |-> s[i].el]
     /\ v.bwd = [i \in 1..Len(v.bwd) |-> s[n + 1 - i].el]
     /\ len(v) = n - (Len(v.fwd) + Len(v.bwd))
     /\ v.pulled = "none" => (len(v) = n /\ v.fwd = <<>> /\ v.bwd = <<>>)
     /\ v.pulled # "none" => (v.wasEmpty <=> v.got = NoEl)
     /\ (v.pulled = "next" /\ ~v.wasEmpty) => v.got = v.fwd[Len(v.fwd)]
     /\ (v.pulled = "next_back" /\ ~v.wasEmpty) => v.got = v.bwd[Len(v.bwd)]
     /\ n = 0 => len(v) = 0

\* C7, the state of every view: it starts over all the children; next yields
\* them left to right and next_back right to left, each child at most once
\* and all of them once len() is 0; len() is the number not yet yielded; a
\* pull on an exhausted view yields nothing; a view's progress depends on its
\* own pulls only; a forward traversal reversed is a backward traversal.
C7_ViewsOk ==
  /\ \A i \in 1..Len(views) : ViewOk(views[i])
  /\ \A i, j \in 1..Len(views) :
       (/\ views[i].node = views[j].node
        /\ len(views[i]) = 0 /\ views[i].bwd = <<>>
        /\ len(views[j]) = 0 /\ views[j].fwd = <<>>)
       => Reverse(views[i].fwd) = views[j].bwd

\* C7: the above always holds, and no step of a view changes a node.
C7_Children == []C7_ViewsOk /\ [][heap' = heap]_vars

\* Two views of the node with the most children: one exhausted from both
\* ends and pulled once more, the other still untouched.
C7_Witness ==
  /\ Len(views) = 2
  /\ views[1].node = 2
  /\ views[2].node = 2
  /\ Len(heap[2].slice) = MaxChildren
  /\ views[1].fwd # <<>>
  /\ views[1].bwd # <<>>
  /\ views[1].wasEmpty
  /\ views[2].pulled = "none"

\* The node a thread is in the middle of building.
UnderConstruction(p) == \E t \in DOMAIN pc : pc[t] = "fixup" /\ local[t].ptr = p
FinalTextLen(p) == SumLens(heap, ElsOf(heap, p), Len(heap[p].slice))

\* C9, the states: the fixup always finds a single owner, so its unwrap
\* never fails; until the fixup the node is held by the building call alone;
\* every read by a thread sees the final text_len.
C9_ExclusiveFixup ==
  /\ \A t \in DOMAIN pc :
       /\ pc[t] # "panicked"
       /\ pc[t] = "fixup" =>
            /\ arcs[local[t].ptr].count = 1
            /\ heap[local[t].ptr].text_len = 0
            /\ \A u \in DOMAIN owned : local[t].ptr \notin Readable(u)
  /\ \A p \in 1..Len(heap) : ~UnderConstruction(p) => heap[p].text_len = FinalTextLen(p)
  /\ op.name = "read" => op.res = FinalTextLen(op.self)

\* C9: the above always holds, and a node is written only by the fixup of
\* the call that builds it.
C9_PatchBeforeShare ==
  /\ []C9_ExclusiveFixup
  /\ [][\A p \in 1..Len(heap) : ~UnderConstruction(p) => heap'[p] = heap[p]]_vars

\* A thread reads the patched length of a node another thread built and
\* dropped, while that thread is between allocation and fixup of a node
\* with text.
C9_Witness ==
  /\ op.name = "read"
  /\ op.res > 0
  /\ arcs[op.self].maker # op.idx
  /\ op.self \notin owned[arcs[op.self].maker]
  /\ \E u \in DOMAIN pc : u # op.idx /\ pc[u] = "fixup" /\ local[u].text_len > 0

====
